---- MODULE Spec2Model ----
(***************************************************************************)
(* fuelfinder-archive (src/main.go): fetch the Fuel Finder CSV over HTTP   *)
(* with an optional proxy fallback, validate it, optionally convert it to  *)
(* nested JSON, and write the result to a file.                            *)
(*                                                                         *)
(* Go strings on which the program works character by character (header    *)
(* keys, cell texts, URLs, the proxy template) are sequences of            *)
(* one-character strings.  Paths and format names are only compared for    *)
(* equality and are TLA+ strings.                                          *)
(***************************************************************************)
EXTENDS Integers, Sequences, FiniteSets, TLC

VARIABLES
    pc,         \* position of the run (or of the function under study)
    outPath,    \* main: *outPath after flag resolution
    format,     \* main: *format
    proxyEnv,   \* the value of FUEL_PROXY_TEMPLATE that buildFuelFinderTargets read
    targets,    \* fetchFuelData: the list buildFuelFinderTargets returned
    idx,        \* fetchFuelData: number of targets the loop has finished with
    lastErr,    \* fetchFuelData: lastErr
    attempts,   \* what happened at each attempt: index of the target, GET issued, outcome
    payload,    \* the fetched body (main), or the converter's input
    records,    \* convertCSVToJSON: records
    converted,  \* what convertCSVToJSON returned: [out, err]
    file,       \* content of the destination file
    writes,     \* number of os.WriteFile calls of the run
    convRuns,   \* number of convertCSVToJSON calls of the run
    exitErr,    \* the error handed to exitWithError, "nil" if none
    header,     \* row construction: the header being applied
    row,        \* row construction: the data row
    col,        \* row construction: number of columns already applied
    entry,      \* row construction: the record under construction
    rowErr,     \* row construction: error of the column just applied
    key,        \* normalizeValue: its key argument
    raw,        \* normalizeValue: its raw argument
    normalized  \* normalizeValue: what it returned, [value, err]

vars == <<pc, outPath, format, proxyEnv, targets, idx, lastErr, attempts, payload,
          records, converted, file, writes, convRuns, exitErr, header, row, col,
          entry, rowErr, key, raw, normalized>>

(***************************************************************************)
(* Bounds of the model.                                                    *)
(***************************************************************************)
MaxCols == 2
MaxRows == 2

(***************************************************************************)
(* Characters and the string functions of the Go library the code calls.   *)
(***************************************************************************)
CharCode ==
    (" " :> 32) @@ ("%" :> 37) @@ ("&" :> 38) @@ ("+" :> 43) @@ ("-" :> 45) @@
    ("." :> 46) @@ ("/" :> 47) @@ ("0" :> 48) @@ ("1" :> 49) @@ ("2" :> 50) @@
    ("3" :> 51) @@ ("4" :> 52) @@ ("5" :> 53) @@ ("6" :> 54) @@ ("7" :> 55) @@
    ("8" :> 56) @@ ("9" :> 57) @@ (":" :> 58) @@ ("=" :> 61) @@ ("?" :> 63) @@
    ("A" :> 65) @@ ("B" :> 66) @@ ("C" :> 67) @@ ("D" :> 68) @@ ("E" :> 69) @@
    ("F" :> 70) @@ ("G" :> 71) @@ ("H" :> 72) @@ ("I" :> 73) @@ ("J" :> 74) @@
    ("K" :> 75) @@ ("L" :> 76) @@ ("M" :> 77) @@ ("N" :> 78) @@ ("O" :> 79) @@
    ("P" :> 80) @@ ("Q" :> 81) @@ ("R" :> 82) @@ ("S" :> 83) @@ ("T" :> 84) @@
    ("U" :> 85) @@ ("V" :> 86) @@ ("W" :> 87) @@ ("X" :> 88) @@ ("Y" :> 89) @@
    ("Z" :> 90) @@ ("_" :> 95) @@ ("a" :> 97) @@ ("b" :> 98) @@ ("c" :> 99) @@
    ("d" :> 100) @@ ("e" :> 101) @@ ("f" :> 102) @@ ("g" :> 103) @@ ("h" :> 104)
    @@ ("i" :> 105) @@ ("j" :> 106) @@ ("k" :> 107) @@ ("l" :> 108) @@ ("m" :>
    109) @@ ("n" :> 110) @@ ("o" :> 111) @@ ("p" :> 112) @@ ("q" :> 113) @@ ("r"
    :> 114) @@ ("s" :> 115) @@ ("t" :> 116) @@ ("u" :> 117) @@ ("v" :> 118) @@
    ("w" :> 119) @@ ("x" :> 120) @@ ("y" :> 121) @@ ("z" :> 122) @@ ("{" :> 123)
    @@ ("}" :> 125) @@ ("~" :> 126)

\* strings.HasPrefix
HasPrefix(s, prefix) ==
    Len(prefix) <= Len(s) /\ SubSeq(s, 1, Len(prefix)) = prefix

\* strings.Index: position of the first occurrence of sub in s, 0 if none
Index(s, sub) ==
    LET hits == {i \in 1..(Len(s) - Len(sub) + 1) :
                    SubSeq(s, i, i + Len(sub) - 1) = sub}
    IN  IF hits = {} THEN 0 ELSE CHOOSE i \in hits : \A j \in hits : i <= j

\* strings.Contains
Contains(s, sub) == Index(s, sub) # 0

\* strings.ReplaceAll (old is not empty): non-overlapping, left to right
RECURSIVE ReplaceAll(_, _, _)
ReplaceAll(s, old, new) ==
    LET i == Index(s, old)
    IN  IF i = 0 THEN s
        ELSE SubSeq(s, 1, i - 1) \o new
             \o ReplaceAll(SubSeq(s, i + Len(old), Len(s)), old, new)

\* strings.Split (sep is not empty); Split of the empty string is <<"">>
RECURSIVE Split(_, _)
Split(s, sep) ==
    LET i == Index(s, sep)
    IN  IF i = 0 THEN <<s>>
        ELSE <<SubSeq(s, 1, i - 1)>> \o Split(SubSeq(s, i + Len(sep), Len(s)), sep)

\* unicode.IsSpace, as strings.TrimSpace uses it: tab, line feed, form feed,
\* carriage return, space, vertical tab, U+0085 and U+00A0, then the spaces
\* above Latin-1.  A character up to U+00FF is the string of that character;
\* a character above it is written by its code point, as in "U+2000".
SpaceChars ==
    {"\t", "\n", "\f", "\r", " ", "", "", " ", "U+1680", "U+2000",
     "U+2001", "U+2002", "U+2003", "U+2004", "U+2005", "U+2006", "U+2007",
     "U+2008", "U+2009", "U+200A", "U+2028", "U+2029", "U+202F", "U+205F",
     "U+3000"}

\* strings.TrimSpace
IsSpace(c) == c \in SpaceChars

RECURSIVE TrimLeft(_)
TrimLeft(s) ==
    IF s # <<>> /\ IsSpace(Head(s)) THEN TrimLeft(Tail(s)) ELSE s

RECURSIVE TrimRight(_)
TrimRight(s) ==
    IF s # <<>> /\ IsSpace(s[Len(s)]) THEN TrimRight(SubSeq(s, 1, Len(s) - 1)) ELSE s

TrimSpace(s) == TrimRight(TrimLeft(s))

\* url.QueryEscape: letters, digits and - _ . ~ are kept, a space becomes +,
\* every other byte becomes %XX in upper-case hexadecimal
HexDigits ==
    <<"0", "1", "2", "3", "4", "5", "6", "7", "8", "9", "A", "B", "C", "D", "E", "F">>

Unreserved(c) ==
    LET n == CharCode[c]
    IN  \/ (48 <= n /\ n <= 57) \/ (65 <= n /\ n <= 90) \/ (97 <= n /\ n <= 122)
        \/ c \in {"-", "_", ".", "~"}

EscapeChar(c) ==
    IF Unreserved(c) THEN <<c>>
    ELSE IF c = " " THEN <<"+">>
    ELSE <<"%", HexDigits[(CharCode[c] \div 16) + 1], HexDigits[(CharCode[c] % 16) + 1]>>

RECURSIVE QueryEscape(_)
QueryEscape(s) ==
    IF s = <<>> THEN <<>> ELSE EscapeChar(Head(s)) \o QueryEscape(Tail(s))

\* Go's string order (bytewise), the order in which encoding/json writes map keys
RECURSIVE StringLess(_, _)
StringLess(a, b) ==
    IF a = <<>> THEN b # <<>>
    ELSE IF b = <<>> THEN FALSE
    ELSE IF Head(a) = Head(b) THEN StringLess(Tail(a), Tail(b))
    ELSE CharCode[Head(a)] < CharCode[Head(b)]

(***************************************************************************)
(* String constants of the program, and the strings the model draws from.  *)
(***************************************************************************)
fuelFinderURL ==
    <<"h", "t", "t", "p", "s", ":", "/", "/", "w", "w", "w", ".", "f", "u", "e",
    "l", "-", "f", "i", "n", "d", "e", "r", ".", "s", "e", "r", "v", "i", "c",
    "e", ".", "g", "o", "v", ".", "u", "k", "/", "i", "n", "t", "e", "r", "n",
    "a", "l", "/", "v", "1", ".", "0", ".", "2", "/", "c", "s", "v", "/", "g",
    "e", "t", "-", "l", "a", "t", "e", "s", "t", "-", "f", "u", "e", "l", "-",
    "p", "r", "i", "c", "e", "s", "-", "c", "s", "v">>

KeyLatitude ==
    <<"f", "o", "r", "e", "c", "o", "u", "r", "t", "s", ".", "l", "o", "c", "a",
    "t", "i", "o", "n", ".", "l", "a", "t", "i", "t", "u", "d", "e">>

KeyLongitude ==
    <<"f", "o", "r", "e", "c", "o", "u", "r", "t", "s", ".", "l", "o", "c", "a",
    "t", "i", "o", "n", ".", "l", "o", "n", "g", "i", "t", "u", "d", "e">>

FuelPricePrefix ==
    <<"f", "o", "r", "e", "c", "o", "u", "r", "t", "s", ".", "f", "u", "e", "l",
    "_", "p", "r", "i", "c", "e", ".">>

UrlToken ==
    <<"{", "u", "r", "l", "}">>

Dot == <<".">>

\* header keys of the model
KeyDiesel ==
    <<"f", "o", "r", "e", "c", "o", "u", "r", "t", "s", ".", "f", "u", "e", "l",
    "_", "p", "r", "i", "c", "e", ".", "d">>

KeyFuelPrice ==
    <<"f", "o", "r", "e", "c", "o", "u", "r", "t", "s", ".", "f", "u", "e", "l",
    "_", "p", "r", "i", "c", "e">>

KeyA == <<"a">>
KeyAB == <<"a", ".", "b">>
KeyB == <<"b">>
KeyADot == <<"a", ".">>

Keys == {KeyA, KeyAB, KeyB, KeyADot, KeyDiesel, KeyFuelPrice, KeyLatitude}

\* cell texts of the model
RawEmpty == <<>>
RawTrue == <<"t", "r", "u", "e">>
RawFalse == <<"f", "a", "l", "s", "e">>
RawTrueTitle == <<"T", "r", "u", "e">>
RawTrueUpper == <<"T", "R", "U", "E">>
RawOne == <<"1">>
RawYes == <<"y", "e", "s">>
RawDecimal == <<"1", ".", "5">>
RawWord == <<"a", "b", "c">>
RawNaN == <<"N", "a", "N">>
RawT == <<"t">>

Raws ==
    {RawEmpty, RawTrue, RawFalse, RawTrueTitle, RawTrueUpper, RawOne, RawYes,
     RawDecimal, RawWord, RawNaN, RawT}

\* proxy templates of the model (values of FUEL_PROXY_TEMPLATE; <<>> is unset or empty)
TemplateQuery ==
    <<" ", "h", "t", "t", "p", ":", "/", "/", "p", "/", "?", "u", "=", "{", "u",
    "r", "l", "}", "\n">>

TemplatePrefix ==
    <<"h", "t", "t", "p", ":", "/", "/", "p", "/">>

TemplateNoScheme ==
    <<":", "{", "u", "r", "l", "}">>

TemplateBlank ==
    <<" ", "\t">>

Templates == {<<>>, TemplateBlank, TemplateQuery, TemplatePrefix, TemplateNoScheme}

(***************************************************************************)
(* JSON values (Go's any, as the converter builds it) and errors.          *)
(* A map[string]any is a function from keys to values; a float64 is a      *)
(* count of thousandths, or NaN.                                           *)
(***************************************************************************)
Nil == "nil"

Null == [t |-> "null"]
Str(s) == [t |-> "string", s |-> s]
Bool(b) == [t |-> "bool", b |-> b]
Num(f) == [t |-> "number", f |-> f]
Obj(m) == [t |-> "object", m |-> m]

EmptyMap == <<>>

\* current[segment] = value
Put(m, k, v) == [x \in (DOMAIN m) \cup {k} |-> IF x = k THEN v ELSE m[x]]

Finite(milli) == [nan |-> FALSE, milli |-> milli]
NaN == [nan |-> TRUE, milli |-> 0]

\* strconv.ParseFloat(raw, 64) on the cell texts of the model: every other
\* text of Raws is a syntax error
FloatTable == (RawOne :> Finite(1000)) @@ (RawDecimal :> Finite(1500)) @@ (RawNaN :> NaN)

parseFloat(r) ==
    IF r \in DOMAIN FloatTable
    THEN [value |-> FloatTable[r], err |-> Nil]
    ELSE [value |-> Finite(0), err |-> "strconv.ParseFloat: invalid syntax"]

\* strconv.ParseBool
parseBool(r) ==
    IF r \in {<<"1">>, <<"t">>, <<"T">>, RawTrue, RawTrueTitle, RawTrueUpper}
    THEN [value |-> TRUE, err |-> Nil]
    ELSE IF r \in {<<"0">>, <<"f">>, <<"F">>, RawFalse,
                   <<"F", "A", "L", "S", "E">>, <<"F", "a", "l", "s", "e">>}
    THEN [value |-> FALSE, err |-> Nil]
    ELSE [value |-> FALSE, err |-> "strconv.ParseBool: invalid syntax"]

\* isNullableNumericField with the prefix written without its final dot
isNullableNumericFieldNoDot(k) ==
    IF k = KeyLatitude \/ k = KeyLongitude THEN TRUE
    ELSE HasPrefix(k, SubSeq(FuelPricePrefix, 1, Len(FuelPricePrefix) - 1))

isNullableNumericField(k) ==
    IF k = KeyLatitude \/ k = KeyLongitude THEN TRUE
    ELSE HasPrefix(k, FuelPricePrefix)

\* normalizeValue handing every text strconv.ParseBool accepts to parseBool
normalizeValueAnyBool(k, r) ==
    IF r = <<>>
    THEN IF isNullableNumericField(k)
         THEN [value |-> Null, err |-> Nil]
         ELSE [value |-> Str(<<>>), err |-> Nil]
    ELSE IF isNullableNumericField(k)
    THEN LET p == parseFloat(r)
         IN  IF p.err # Nil THEN [value |-> Null, err |-> p.err]
             ELSE [value |-> Num(p.value), err |-> Nil]
    ELSE IF parseBool(r).err = Nil
    THEN [value |-> Bool(parseBool(r).value), err |-> Nil]
    ELSE [value |-> Str(r), err |-> Nil]

normalizeValue(k, r) ==
    IF r = <<>>
    THEN IF isNullableNumericField(k)
         THEN [value |-> Null, err |-> Nil]
         ELSE [value |-> Str(<<>>), err |-> Nil]
    ELSE IF isNullableNumericField(k)
    THEN LET p == parseFloat(r)
         IN  IF p.err # Nil THEN [value |-> Null, err |-> p.err]
             ELSE [value |-> Num(p.value), err |-> Nil]
    ELSE IF r = RawTrue \/ r = RawFalse
    THEN LET p == parseBool(r)
         IN  IF p.err # Nil THEN [value |-> Null, err |-> p.err]
             ELSE [value |-> Bool(p.value), err |-> Nil]
    ELSE [value |-> Str(r), err |-> Nil]

\* The loop of setNestedValue from segment i on, current being the map the
\* walk has reached.  The maps are updated in place in the code, so what was
\* created before an error stays in root.
RECURSIVE setNestedFrom(_, _, _, _)
setNestedFrom(current, path, i, value) ==
    IF i = Len(path)
    THEN IF path[i] = <<>>
         THEN [root |-> current, err |-> "empty key segment"]
         ELSE [root |-> Put(current, path[i], value), err |-> Nil]
    ELSE LET segment == path[i]
         IN  IF segment = <<>>
             THEN [root |-> current, err |-> "empty key segment"]
             ELSE IF segment \in DOMAIN current
             THEN IF current[segment].t # "object"
                  THEN [root |-> current, err |-> "is not an object"]
                  ELSE LET r == setNestedFrom(current[segment].m, path, i + 1, value)
                       IN  [root |-> Put(current, segment, Obj(r.root)), err |-> r.err]
             ELSE LET r == setNestedFrom(EmptyMap, path, i + 1, value)
                  IN  [root |-> Put(current, segment, Obj(r.root)), err |-> r.err]

setNestedValue(root, path, value) ==
    IF Len(path) = 0 THEN [root |-> root, err |-> "empty key path"]
    ELSE setNestedFrom(root, path, 1, value)

\* One iteration of the column loop of convertCSVToJSON: column i of the row
setColumn(e, k, r) ==
    LET n == normalizeValue(k, r)
    IN  IF n.err # Nil THEN [entry |-> e, err |-> "parse"]
        ELSE LET s == setNestedValue(e, Split(k, Dot), n.value)
             IN  IF s.err # Nil THEN [entry |-> s.root, err |-> "set"]
                 ELSE [entry |-> s.root, err |-> Nil]

\* The column loop of convertCSVToJSON (lines 176-185) from column i on
RECURSIVE convertColumns(_, _, _, _)
convertColumns(e, hdr, rw, i) ==
    IF i > Len(hdr) THEN [entry |-> e, err |-> Nil]
    ELSE LET s == setColumn(e, hdr[i], rw[i])
         IN  IF s.err # Nil THEN s
             ELSE convertColumns(s.entry, hdr, rw, i + 1)

(***************************************************************************)
(* A payload is what encoding/csv makes of the bytes: whether there are    *)
(* any bytes, the records a reader with FieldsPerRecord = -1 returns (each *)
(* has at least one field; the first is the header, of keys), and whether  *)
(* the reader then reports a lexical error instead of the end of input.    *)
(***************************************************************************)
Payload(empty, recs, bad) == [empty |-> empty, records |-> recs, bad |-> bad]

EmptyPayload == Payload(TRUE, <<>>, FALSE)

\* The n-th call of reader.Read
Read(p, n) ==
    IF n <= Len(p.records) THEN [record |-> p.records[n], err |-> Nil]
    ELSE IF p.bad THEN [record |-> <<>>, err |-> "csv.ParseError"]
    ELSE [record |-> <<>>, err |-> "EOF"]

RECURSIVE validateFrom(_, _)
validateFrom(p, n) ==
    LET r == Read(p, n)
    IN  IF r.err = Nil THEN validateFrom(p, n + 1)
        ELSE IF r.err = "EOF" THEN Nil
        ELSE r.err

validateCSV(p) == validateFrom(p, 1)

(***************************************************************************)
(* json.MarshalIndent of the records: a nil slice is written as null, the  *)
(* keys of every map are written in Go's string order, and a NaN is an     *)
(* unsupported value.  The document is kept as a tree; its indentation is  *)
(* not modelled.                                                           *)
(***************************************************************************)
NoBytes == [t |-> "none"]
JSONNull == [t |-> "null"]

RECURSIVE SortedKeys(_)
SortedKeys(S) ==
    IF S = {} THEN <<>>
    ELSE LET k == CHOOSE x \in S : \A y \in S \ {x} : StringLess(x, y)
         IN  <<k>> \o SortedKeys(S \ {k})

RECURSIVE Unsupported(_)
Unsupported(v) ==
    IF v.t = "object" THEN \E k \in DOMAIN v.m : Unsupported(v.m[k])
    ELSE v.t = "number" /\ v.f.nan

RECURSIVE marshalValue(_)
marshalValue(v) ==
    IF v.t = "object"
    THEN LET keys == SortedKeys(DOMAIN v.m)
         IN  [t |-> "object",
              members |-> [i \in 1..Len(keys) |->
                              [k |-> keys[i], v |-> marshalValue(v.m[keys[i]])]]]
    ELSE v

MarshalIndent(recs) ==
    IF recs = <<>> THEN [out |-> JSONNull, err |-> Nil]
    ELSE IF \E i \in 1..Len(recs) : Unsupported(Obj(recs[i]))
    THEN [out |-> NoBytes, err |-> "json: unsupported value"]
    ELSE [out |-> [t |-> "array",
                   items |-> [i \in 1..Len(recs) |-> marshalValue(Obj(recs[i]))]],
          err |-> Nil]

\* convertRow without the append of line 186
convertRowNoAppend(hdr, recs, rw) ==
    IF Len(rw) # Len(hdr)
    THEN [records |-> recs, err |-> "row field count"]
    ELSE LET c == convertColumns(EmptyMap, hdr, rw, 1)
         IN  IF c.err # Nil THEN [records |-> recs, err |-> c.err]
             ELSE [records |-> recs, err |-> Nil]

\* The body of the row loop of convertCSVToJSON for a row the reader returned
convertRow(hdr, recs, rw) ==
    IF Len(rw) # Len(hdr)
    THEN [records |-> recs, err |-> "row field count"]
    ELSE LET c == convertColumns(EmptyMap, hdr, rw, 1)
         IN  IF c.err # Nil THEN [records |-> recs, err |-> c.err]
             ELSE [records |-> Append(recs, c.entry), err |-> Nil]

\* The row loop of convertCSVToJSON from the n-th Read on
RECURSIVE convertRows(_, _, _, _)
convertRows(p, hdr, recs, n) ==
    LET r == Read(p, n)
    IN  IF r.err = Nil
        THEN LET c == convertRow(hdr, recs, r.record)
             IN  IF c.err # Nil THEN [out |-> NoBytes, err |-> c.err]
                 ELSE convertRows(p, hdr, c.records, n + 1)
        ELSE IF r.err = "EOF" THEN MarshalIndent(recs)
        ELSE [out |-> NoBytes, err |-> r.err]

convertCSVToJSON(p) ==
    LET h == Read(p, 1)
    IN  IF h.err # Nil THEN [out |-> NoBytes, err |-> h.err]
        ELSE IF Len(h.record) = 0 THEN [out |-> NoBytes, err |-> "missing header row"]
        ELSE convertRows(p, h.record, <<>>, 2)

(***************************************************************************)
(* The fetcher.                                                            *)
(***************************************************************************)
StatusOK == 200
StatusNotFound == 404
StatusUnavailable == 503

buildProxyURL(template, target) ==
    IF Contains(template, UrlToken)
    THEN ReplaceAll(template, UrlToken, QueryEscape(target))
    ELSE template \o target

\* buildFuelFinderTargets with the proxy-derived URL first
buildFuelFinderTargetsProxyFirst(envTemplate) ==
    LET proxyTemplate == TrimSpace(envTemplate)
    IN  IF proxyTemplate = <<>> THEN <<fuelFinderURL>>
        ELSE <<buildProxyURL(proxyTemplate, fuelFinderURL), fuelFinderURL>>

\* envTemplate is os.Getenv("FUEL_PROXY_TEMPLATE"), empty when unset
buildFuelFinderTargets(envTemplate) ==
    LET proxyTemplate == TrimSpace(envTemplate)
    IN  IF proxyTemplate = <<>> THEN <<fuelFinderURL>>
        ELSE <<fuelFinderURL, buildProxyURL(proxyTemplate, fuelFinderURL)>>

\* http.NewRequest fails when url.Parse does; of its reasons the model has
\* the one its templates can cause, a URL that starts with a colon
\* ("missing protocol scheme")
newRequestOK(target) == ~(target # <<>> /\ Head(target) = ":")

\* What the transport does with a GET: no response at all, or a status and
\* a body that may fail to be read
Response(kind, status, readOK, body) ==
    [kind |-> kind, status |-> status, readOK |-> readOK, body |-> body]

StatusText(status) ==
    IF status = StatusNotFound THEN "unexpected status: 404 Not Found"
    ELSE IF status = StatusUnavailable THEN "unexpected status: 503 Service Unavailable"
    ELSE "unexpected status"

\* sent: whether client.Do was called, that is, whether a GET was issued
fetchFuelDataFromURL(target, resp) ==
    IF ~newRequestOK(target)
    THEN [payload |-> EmptyPayload, err |-> "create request", sent |-> FALSE]
    ELSE IF resp.kind = "error"
    THEN [payload |-> EmptyPayload, err |-> "fetch fuel data", sent |-> TRUE]
    ELSE IF resp.status # StatusOK
    THEN [payload |-> EmptyPayload, err |-> StatusText(resp.status), sent |-> TRUE]
    ELSE IF ~resp.readOK
    THEN [payload |-> EmptyPayload, err |-> "read response", sent |-> TRUE]
    ELSE [payload |-> resp.body, err |-> Nil, sent |-> TRUE]

\* fetchAttempt keeping the first error instead of the last
fetchAttemptKeepsFirstError(prevErr, r) ==
    IF r.err # Nil
    THEN [return |-> FALSE, lastErr |-> IF prevErr # Nil THEN prevErr ELSE r.err,
          payload |-> EmptyPayload]
    ELSE IF r.payload.empty
    THEN [return |-> FALSE,
          lastErr |-> IF prevErr # Nil THEN prevErr ELSE "received empty response",
          payload |-> EmptyPayload]
    ELSE [return |-> TRUE, lastErr |-> prevErr, payload |-> r.payload]

\* The body of the loop of fetchFuelData, r being what fetchFuelDataFromURL
\* returned for the target
fetchAttempt(prevErr, r) ==
    IF r.err # Nil
    THEN [return |-> FALSE, lastErr |-> r.err, payload |-> EmptyPayload]
    ELSE IF r.payload.empty
    THEN [return |-> FALSE, lastErr |-> "received empty response", payload |-> EmptyPayload]
    ELSE [return |-> TRUE, lastErr |-> prevErr, payload |-> r.payload]

\* What fetchFuelData returns once the loop has run out of targets
fetchExhausted(err) ==
    IF err # Nil THEN err ELSE "failed to fetch fuel data"

(***************************************************************************)
(* Configuration: environment variables and flags.                         *)
(***************************************************************************)
Unset == [set |-> FALSE, value |-> ""]
Given(v) == [set |-> TRUE, value |-> v]

getEnvDefault(env, fallback) == IF ~env.set THEN fallback ELSE env.value

\* flag.String(name, def, ...) after flag.Parse
flagString(flag, def) == IF flag.set THEN flag.value ELSE def

\* *outPath after lines 26-37
resolveOutPath(envOut, flagOut, flagOutput, fmt) ==
    LET out == flagString(flagOut, getEnvDefault(envOut, "data.csv"))
        output == flagString(flagOutput, "")
        chosen == IF output # "" THEN output ELSE out
    IN  IF fmt = "json" /\ chosen = "data.csv" THEN "data.json" ELSE chosen

resolveFormat(envFormat, flagFormat) ==
    flagString(flagFormat, getEnvDefault(envFormat, "csv"))

\* exitWithError without os.Exit: the error is printed and the caller goes on
exitWithErrorReturns(err, resume) == [pc |-> resume, exitErr |-> err]

\* exitWithError prints the error and ends the process with os.Exit(1);
\* resume is where its caller would go on if it returned
exitWithError(err, resume) == [pc |-> "exit", exitErr |-> err]

\* the test of line 57 taken for every format
wantsJSONAlways(fmt) == TRUE

wantsJSON(fmt) == fmt = "json"

ErrEmptyOutPath == "output path cannot be empty"
ErrUnsupportedFormat == "unsupported format"

\* os.WriteFile: the file holds the data, or the call fails before the file
\* is opened, or after it was truncated
OldFile == [t |-> "old"]
PartialFile == [t |-> "partial"]
CSVBytes(p) == [t |-> "csv", p |-> p]

WriteOutcomes == {"written", "not opened", "truncated"}

WriteFile(old, data, outcome) ==
    IF outcome = "written" THEN [file |-> data, err |-> Nil]
    ELSE IF outcome = "not opened" THEN [file |-> old, err |-> "write output"]
    ELSE [file |-> PartialFile, err |-> "write output"]

(***************************************************************************)
(* The inputs of a run.                                                    *)
(***************************************************************************)
PathValues == {Unset, Given(""), Given("data.csv"), Given("out.csv")}
FormatValues == {Unset, Given(""), Given("csv"), Given("json"), Given("xml")}

BodyHeaderOnly == Payload(FALSE, << <<KeyA, KeyDiesel>> >>, FALSE)
BodyOneRow == Payload(FALSE, << <<KeyB, KeyDiesel>>, <<RawWord, RawDecimal>> >>, FALSE)
BodyRagged == Payload(FALSE, << <<KeyA, KeyB>>, <<RawWord>> >>, FALSE)
BodyBadQuote == Payload(FALSE, << <<KeyA>> >>, TRUE)
BodyBlankLines == Payload(FALSE, <<>>, FALSE)

Bodies == {EmptyPayload, BodyHeaderOnly, BodyOneRow, BodyRagged, BodyBadQuote, BodyBlankLines}

Responses ==
    {Response("error", 0, FALSE, EmptyPayload),
     Response("http", StatusNotFound, TRUE, EmptyPayload),
     Response("http", StatusUnavailable, TRUE, EmptyPayload),
     Response("http", StatusOK, FALSE, EmptyPayload)}
    \cup {Response("http", StatusOK, TRUE, b) : b \in Bodies}

(***************************************************************************)
(* The run of main.                                                        *)
(***************************************************************************)
rowVars == <<header, row, col, entry, rowErr>>
normVars == <<key, raw, normalized>>

MainIdle ==
    /\ outPath = "" /\ format = "" /\ proxyEnv = <<>> /\ targets = <<>> /\ idx = 0
    /\ lastErr = Nil /\ attempts = <<>> /\ file = OldFile /\ writes = 0
    /\ convRuns = 0 /\ exitErr = Nil
ConvIdle == payload = EmptyPayload /\ records = <<>> /\ converted = [out |-> NoBytes, err |-> Nil]
RowIdle == header = <<>> /\ row = <<>> /\ col = 0 /\ entry = EmptyMap /\ rowErr = Nil
NormIdle == key = <<>> /\ raw = <<>> /\ normalized = [value |-> Null, err |-> Nil]

Init == pc = "start" /\ MainIdle /\ ConvIdle /\ RowIdle /\ NormIdle

\* lines 26-37
ParseFlags ==
    /\ pc = "start"
    /\ \E envOut \in PathValues, flagOut \in PathValues,
          flagOutput \in {Unset, Given(""), Given("archive.json")},
          envFormat \in FormatValues, flagFormat \in FormatValues :
          LET fmt == resolveFormat(envFormat, flagFormat)
          IN  /\ format' = fmt
              /\ outPath' = resolveOutPath(envOut, flagOut, flagOutput, fmt)
    /\ pc' = "checkOutPath"
    /\ UNCHANGED <<proxyEnv, targets, idx, lastErr, attempts, payload, records,
                   converted, file, writes, convRuns, exitErr, rowVars, normVars>>

\* lines 39-41
CheckOutPath ==
    /\ pc = "checkOutPath"
    /\ LET x == exitWithError(ErrEmptyOutPath, "checkFormat")
       IN  IF outPath = ""
           THEN pc' = x.pc /\ exitErr' = x.exitErr
           ELSE pc' = "checkFormat" /\ UNCHANGED exitErr
    /\ UNCHANGED <<outPath, format, proxyEnv, targets, idx, lastErr, attempts, payload,
                   records, converted, file, writes, convRuns, rowVars, normVars>>

\* lines 43-45
CheckFormat ==
    /\ pc = "checkFormat"
    /\ LET x == exitWithError(ErrUnsupportedFormat, "fetch")
       IN  IF format # "csv" /\ format # "json"
           THEN pc' = x.pc /\ exitErr' = x.exitErr
           ELSE pc' = "fetch" /\ UNCHANGED exitErr
    /\ UNCHANGED <<outPath, format, proxyEnv, targets, idx, lastErr, attempts, payload,
                   records, converted, file, writes, convRuns, rowVars, normVars>>

\* fetchFuelData, lines 89-90: the target list is built once, before the loop
BuildTargets ==
    /\ pc = "fetch"
    /\ \E envTemplate \in Templates :
          /\ proxyEnv' = envTemplate
          /\ targets' = buildFuelFinderTargets(envTemplate)
    /\ idx' = 0
    /\ lastErr' = Nil
    /\ pc' = "attempt"
    /\ UNCHANGED <<outPath, format, attempts, payload, records, converted, file,
                   writes, convRuns, exitErr, rowVars, normVars>>

\* fetchFuelData, lines 90-101: one iteration of the loop
Attempt ==
    /\ pc = "attempt"
    /\ idx < Len(targets)
    /\ \E resp \in Responses :
          LET target == targets[idx + 1]
              r == fetchFuelDataFromURL(target, resp)
              a == fetchAttempt(lastErr, r)
          IN  /\ attempts' = Append(attempts,
                    [target |-> idx + 1, sent |-> r.sent, err |-> r.err,
                     body |-> r.payload])
              /\ lastErr' = a.lastErr
              /\ IF a.return
                 THEN payload' = a.payload /\ pc' = "validate" /\ idx' = idx
                 ELSE UNCHANGED payload /\ pc' = "attempt" /\ idx' = idx + 1
    /\ UNCHANGED <<outPath, format, proxyEnv, targets, records, converted, file, writes,
                   convRuns, exitErr, rowVars, normVars>>

\* fetchFuelData, lines 103-106, and main, lines 49-51
FetchExhausted ==
    /\ pc = "attempt"
    /\ idx = Len(targets)
    /\ LET x == exitWithError(fetchExhausted(lastErr), "validate")
       IN  pc' = x.pc /\ exitErr' = x.exitErr
    /\ UNCHANGED <<outPath, format, proxyEnv, targets, idx, lastErr, attempts, payload,
                   records, converted, file, writes, convRuns, rowVars, normVars>>

\* lines 53-57
Validate ==
    /\ pc = "validate"
    /\ LET x == exitWithError("invalid CSV", IF wantsJSON(format) THEN "convert" ELSE "writeCSV")
       IN  IF validateCSV(payload) # Nil
           THEN pc' = x.pc /\ exitErr' = x.exitErr
           ELSE /\ pc' = IF wantsJSON(format) THEN "convert" ELSE "writeCSV"
                /\ UNCHANGED exitErr
    /\ UNCHANGED <<outPath, format, proxyEnv, targets, idx, lastErr, attempts, payload,
                   records, converted, file, writes, convRuns, rowVars, normVars>>

\* lines 58-61
Convert ==
    /\ pc = "convert"
    /\ converted' = convertCSVToJSON(payload)
    /\ convRuns' = convRuns + 1
    /\ LET x == exitWithError("convert to JSON", "writeJSON")
       IN  IF converted'.err # Nil
           THEN pc' = x.pc /\ exitErr' = x.exitErr
           ELSE pc' = "writeJSON" /\ UNCHANGED exitErr
    /\ UNCHANGED <<outPath, format, proxyEnv, targets, idx, lastErr, attempts, payload,
                   records, file, writes, rowVars, normVars>>

\* lines 62-65
WriteJSON ==
    /\ pc = "writeJSON"
    /\ \E outcome \in WriteOutcomes :
          LET w == WriteFile(file, converted.out, outcome)
              x == exitWithError(w.err, "done")
          IN  /\ file' = w.file
              /\ IF w.err # Nil
                 THEN pc' = x.pc /\ exitErr' = x.exitErr
                 ELSE pc' = "done" /\ UNCHANGED exitErr
    /\ writes' = writes + 1
    /\ UNCHANGED <<outPath, format, proxyEnv, targets, idx, lastErr, attempts, payload,
                   records, converted, convRuns, rowVars, normVars>>

\* lines 68-70
WriteCSV ==
    /\ pc = "writeCSV"
    /\ \E outcome \in WriteOutcomes :
          LET w == WriteFile(file, CSVBytes(payload), outcome)
              x == exitWithError(w.err, "done")
          IN  /\ file' = w.file
              /\ IF w.err # Nil
                 THEN pc' = x.pc /\ exitErr' = x.exitErr
                 ELSE pc' = "done" /\ UNCHANGED exitErr
    /\ writes' = writes + 1
    /\ UNCHANGED <<outPath, format, proxyEnv, targets, idx, lastErr, attempts, payload,
                   records, converted, convRuns, rowVars, normVars>>

Next ==
    \/ ParseFlags
    \/ CheckOutPath
    \/ CheckFormat
    \/ BuildTargets
    \/ Attempt
    \/ FetchExhausted
    \/ Validate
    \/ Convert
    \/ WriteJSON
    \/ WriteCSV

Spec == Init /\ [][Next]_vars

(***************************************************************************)
(* normalizeValue on its own: a key and a cell text, then the call.        *)
(***************************************************************************)
InitNormalize ==
    /\ pc = "normalize"
    /\ key \in Keys
    /\ raw \in Raws
    /\ normalized = [value |-> Null, err |-> Nil]
    /\ MainIdle /\ ConvIdle /\ RowIdle

Normalize ==
    /\ pc = "normalize"
    /\ normalized' = normalizeValue(key, raw)
    /\ pc' = "normalized"
    /\ UNCHANGED <<outPath, format, proxyEnv, targets, idx, lastErr, attempts, payload,
                   records, converted, file, writes, convRuns, exitErr, rowVars,
                   key, raw>>

NextNormalize == Normalize

SpecNormalize == InitNormalize /\ [][NextNormalize]_vars

(***************************************************************************)
(* The construction of one record (convertCSVToJSON, lines 176-186): a     *)
(* header and a row of as many fields, then the columns one by one.        *)
(***************************************************************************)
RowRaws == {RawEmpty, RawTrue, RawDecimal, RawWord}

SeqsUpTo(S, n) == UNION {[1..m -> S] : m \in 1..n}

InitRow ==
    /\ pc = "columns"
    /\ header \in SeqsUpTo(Keys, MaxCols)
    /\ row \in [1..Len(header) -> RowRaws]
    /\ col = 0
    /\ entry = EmptyMap
    /\ rowErr = Nil
    /\ MainIdle /\ ConvIdle /\ NormIdle

SetColumn ==
    /\ pc = "columns"
    /\ col < Len(header)
    /\ LET s == setColumn(entry, header[col + 1], row[col + 1])
       IN  /\ entry' = s.entry
           /\ rowErr' = s.err
           /\ pc' = IF s.err # Nil THEN "rowFailed"
                    ELSE IF col + 1 = Len(header) THEN "rowDone"
                    ELSE "columns"
    /\ col' = col + 1
    /\ UNCHANGED <<outPath, format, proxyEnv, targets, idx, lastErr, attempts, payload,
                   records, converted, file, writes, convRuns, exitErr, header, row,
                   normVars>>

NextRow == SetColumn

SpecRow == InitRow /\ [][NextRow]_vars

(***************************************************************************)
(* convertCSVToJSON on its own, a call of reader.Read at a time: the       *)
(* payload grows by the records the reader has returned.                   *)
(***************************************************************************)
ConvKeys == {KeyA, KeyAB, KeyDiesel}
ConvRaws == {RawDecimal, RawWord, RawNaN}

InitConvert ==
    /\ pc = "readHeader"
    /\ payload = Payload(FALSE, <<>>, FALSE)
    /\ records = <<>>
    /\ converted = [out |-> NoBytes, err |-> Nil]
    /\ MainIdle /\ RowIdle /\ NormIdle

\* lines 161-167, the reader returning a header
ReadHeader ==
    /\ pc = "readHeader"
    /\ \E h \in SeqsUpTo(ConvKeys, MaxCols) :
          /\ header' = h
          /\ payload' = Payload(FALSE, <<h>>, FALSE)
    /\ pc' = "readRow"
    /\ UNCHANGED <<outPath, format, proxyEnv, targets, idx, lastErr, attempts, records,
                   converted, file, writes, convRuns, exitErr, row, col, entry,
                   rowErr, normVars>>

\* lines 161-164, the reader at the end of its input (a payload of blank lines)
ReadHeaderEOF ==
    /\ pc = "readHeader"
    /\ converted' = convertCSVToJSON(payload)
    /\ pc' = "converted"
    /\ UNCHANGED <<outPath, format, proxyEnv, targets, idx, lastErr, attempts, payload,
                   records, file, writes, convRuns, exitErr, rowVars, normVars>>

\* lines 171-187, the reader returning a row
ReadRow ==
    /\ pc = "readRow"
    /\ Len(payload.records) <= MaxRows
    /\ \E rw \in SeqsUpTo(ConvRaws, MaxCols) :
          LET c == convertRow(header, records, rw)
          IN  /\ payload' = Payload(FALSE, Append(payload.records, rw), FALSE)
              /\ records' = c.records
              /\ IF c.err # Nil
                 THEN converted' = [out |-> NoBytes, err |-> c.err] /\ pc' = "converted"
                 ELSE UNCHANGED converted /\ pc' = "readRow"
    /\ UNCHANGED <<outPath, format, proxyEnv, targets, idx, lastErr, attempts, file,
                   writes, convRuns, exitErr, rowVars, normVars>>

\* lines 189-195, the reader at the end of its input
ReadEOF ==
    /\ pc = "readRow"
    /\ converted' = MarshalIndent(records)
    /\ pc' = "converted"
    /\ UNCHANGED <<outPath, format, proxyEnv, targets, idx, lastErr, attempts, payload,
                   records, file, writes, convRuns, exitErr, rowVars, normVars>>

\* line 192, the reader reporting a lexical error
ReadError ==
    /\ pc = "readRow"
    /\ payload' = [payload EXCEPT !.bad = TRUE]
    /\ converted' = [out |-> NoBytes, err |-> "csv.ParseError"]
    /\ pc' = "converted"
    /\ UNCHANGED <<outPath, format, proxyEnv, targets, idx, lastErr, attempts, records,
                   file, writes, convRuns, exitErr, rowVars, normVars>>

NextConvert ==
    \/ ReadHeader
    \/ ReadHeaderEOF
    \/ ReadRow
    \/ ReadEOF
    \/ ReadError

SpecConvert == InitConvert /\ [][NextConvert]_vars

\* The two forms of the row loop agree
ConvertAgrees == pc = "converted" => converted = convertCSVToJSON(payload)

(***************************************************************************)
(* Properties.                                                             *)
(***************************************************************************)
\* An attempt whose response was HTTP 200 with a body that is not empty
Succeeded(a) == a.err = Nil /\ ~a.body.empty

LastAttempt == attempts[Len(attempts)]

FetchSucceeded == attempts # <<>> /\ Succeeded(LastAttempt)

FetchFailed == pc = "exit" /\ attempts # <<>> /\ ~Succeeded(LastAttempt)

\* The error fetchFuelData records for a failed attempt
ErrorOf(a) == IF a.err # Nil THEN a.err ELSE "received empty response"

AfterFetch == pc \in {"validate", "convert", "writeJSON", "writeCSV", "done"}

\* What C1 says of the order of the attempts and of the result, the number
\* of GETs apart
AttemptsInOrder ==
    /\ Len(attempts) <= Len(targets)
    /\ \A i \in 1..Len(attempts) : attempts[i].target = i
    /\ targets # <<>> => targets[1] = fuelFinderURL
    /\ Len(targets) = 2 =>
          targets[2] = buildProxyURL(TrimSpace(proxyEnv), fuelFinderURL)
    /\ \A i \in 1..(Len(attempts) - 1) : ~Succeeded(attempts[i])
    /\ FetchSucceeded => payload = LastAttempt.body /\ pc # "attempt"
    /\ AfterFetch => FetchSucceeded

\* C1 as stated: the targets are attempted in list order, the canonical URL
\* first, with exactly one GET for each target attempted; the body of the
\* first target that answers 200 with a body that is not empty is returned,
\* the fallback is attempted only after the primary has failed, and nothing
\* is attempted after a success.
C1_OneGetPerTarget ==
    /\ AttemptsInOrder
    /\ \A i \in 1..Len(attempts) : attempts[i].sent

\* C1 amended: as above, with at most one GET for each target attempted: one
\* for the canonical URL, and one for the fallback unless no request can be
\* made of the proxy-derived URL, which is then a failure of that target
\* without a GET.
C1_FetchInOrder ==
    /\ AttemptsInOrder
    /\ \A i \in 1..Len(attempts) :
          /\ attempts[i].sent <=> ~(Head(targets[attempts[i].target]) = ":")
          /\ ~attempts[i].sent => i = 2 /\ attempts[i].err = "create request"
          /\ i = 1 => attempts[i].sent

C1_Witness ==
    /\ pc = "validate"
    /\ Len(attempts) = 2
    /\ attempts[1].sent /\ attempts[2].sent
    /\ ~Succeeded(attempts[1])
    /\ payload = attempts[2].body

\* C2: when every target has failed, fetchFuelData fails with the error of
\* the last target attempted; without a proxy template there is one target,
\* and the failure of the primary fails the operation after one attempt.
C2_LastErrorReported ==
    /\ FetchFailed =>
          /\ Len(attempts) = Len(targets)
          /\ \A i \in 1..Len(attempts) : ~Succeeded(attempts[i])
          /\ exitErr = ErrorOf(LastAttempt)
    /\ (targets # <<>> /\ proxyEnv \in {<<>>, TemplateBlank}) =>
          /\ Len(targets) = 1
          /\ FetchFailed => Len(attempts) = 1

C2_Witness ==
    /\ FetchFailed
    /\ Len(attempts) = 2
    /\ ErrorOf(attempts[1]) # ErrorOf(attempts[2])
    /\ exitErr = ErrorOf(attempts[2])

ConfigErrors == {ErrEmptyOutPath, ErrUnsupportedFormat}

\* C9: when the resolved output path is empty or the resolved format is
\* neither csv nor json, the run ends with the configuration error, and no
\* request has been issued in a run that ends with a configuration error.
C9_ConfigErrorBeforeFetch ==
    /\ (pc # "start" /\ (outPath = "" \/ format \notin {"csv", "json"})) =>
          /\ attempts = <<>>
          /\ targets = <<>>
          /\ \/ pc \in {"checkOutPath", "checkFormat"}
             \/ pc = "exit" /\ exitErr \in ConfigErrors
    /\ exitErr \in ConfigErrors => pc = "exit" /\ attempts = <<>> /\ targets = <<>>

C9_Witness ==
    pc = "exit" /\ exitErr = ErrUnsupportedFormat /\ outPath # "" /\ attempts = <<>>

\* C10: the file is written at most once, and only after the fetch, the
\* validation and (for json) the conversion have succeeded; a run that
\* fails before the write leaves the file as it was; in csv mode what is
\* written is the fetched payload, and the converter is never run.
C10_WriteOnceAfterSuccess ==
    /\ writes <= 1
    /\ writes = 0 => file = OldFile
    /\ writes = 1 =>
          /\ outPath # "" /\ format \in {"csv", "json"}
          /\ FetchSucceeded
          /\ validateCSV(payload) = Nil
          /\ format = "json" => convRuns = 1 /\ converted.err = Nil
          /\ pc \in {"done", "exit"}
    /\ (pc = "exit" /\ exitErr # "write output") => writes = 0 /\ file = OldFile
    /\ (pc = "done" /\ format = "json") => file = converted.out
    /\ format = "csv" =>
          /\ convRuns = 0
          /\ pc = "done" => file = CSVBytes(payload)
          /\ file \in {OldFile, PartialFile, CSVBytes(payload)}

\* a csv run that wrote a payload the converter rejects
C10_Witness ==
    /\ pc = "done" /\ format = "csv" /\ writes = 1
    /\ file = CSVBytes(payload)
    /\ convertCSVToJSON(payload).err # Nil

\* The nullable numeric fields, as the specification lists them
NullableNumericKey(k) ==
    k = KeyLatitude \/ k = KeyLongitude \/ HasPrefix(k, FuelPricePrefix)

\* C4 as stated: under any key, the texts true and false become JSON
\* booleans, and True, TRUE, 1 and yes stay strings.
C4_BooleanLiteralsAnyKey ==
    pc = "normalized" =>
        /\ raw \in {RawTrue, RawFalse} =>
              normalized.err = Nil /\ normalized.value = Bool(raw = RawTrue)
        /\ raw \in {RawTrueTitle, RawTrueUpper, RawOne, RawYes} =>
              normalized.err = Nil /\ normalized.value = Str(raw)

\* C4 amended: under any key that is not a nullable numeric field, the texts
\* true and false become JSON booleans, and True, TRUE, 1 and yes stay
\* strings.
C4_BooleanLiterals ==
    (pc = "normalized" /\ ~NullableNumericKey(key)) =>
        /\ raw \in {RawTrue, RawFalse} =>
              normalized.err = Nil /\ normalized.value = Bool(raw = RawTrue)
        /\ raw \in {RawTrueTitle, RawTrueUpper, RawOne, RawYes} =>
              normalized.err = Nil /\ normalized.value = Str(raw)

C4_Witness ==
    /\ pc = "normalized" /\ ~NullableNumericKey(key)
    /\ raw = RawFalse /\ normalized.value = Bool(FALSE)

\* The value a record holds at a key path
Missing == [t |-> "missing"]

RECURSIVE ValueFrom(_, _, _)
ValueFrom(m, path, i) ==
    IF path[i] \notin DOMAIN m THEN Missing
    ELSE IF i = Len(path) THEN m[path[i]]
    ELSE IF m[path[i]].t # "object" THEN Missing
    ELSE ValueFrom(m[path[i]].m, path, i + 1)

ValueAt(m, path) == IF path = <<>> THEN Obj(m) ELSE ValueFrom(m, path, 1)

Path(k) == Split(k, Dot)

IsPrefix(a, b) == Len(a) <= Len(b) /\ SubSeq(b, 1, Len(a)) = a
ProperPrefix(a, b) == Len(a) < Len(b) /\ SubSeq(b, 1, Len(a)) = a

EmptyCellValue(k) == IF NullableNumericKey(k) THEN Null ELSE Str(<<>>)

\* C5 as stated: in a converted record every empty cell under a nullable
\* numeric key has null at its key path, and every empty cell under another
\* key has the empty string.
C5_EmptyCellsInRecord ==
    pc = "rowDone" =>
        \A i \in 1..Len(header) :
            row[i] = <<>> => ValueAt(entry, Path(header[i])) = EmptyCellValue(header[i])

\* a later column of the row writes the key path of column i or a prefix of it
WrittenLater(i) ==
    \E j \in (i + 1)..Len(header) : IsPrefix(Path(header[j]), Path(header[i]))

\* C5 amended: an empty cell is assigned null at its key path under a
\* nullable numeric key and the empty string under another key, and the
\* converted record holds that value there unless a later column of the row
\* writes the same key path or a prefix of it.
C5_EmptyCellsUnlessWrittenLater ==
    /\ (pc \in {"columns", "rowDone"} /\ col >= 1 /\ row[col] = <<>>) =>
          ValueAt(entry, Path(header[col])) = EmptyCellValue(header[col])
    /\ pc = "rowDone" =>
          \A i \in 1..Len(header) :
              (row[i] = <<>> /\ ~WrittenLater(i)) =>
                  ValueAt(entry, Path(header[i])) = EmptyCellValue(header[i])

C5_Witness ==
    /\ pc = "rowDone"
    /\ \E i, j \in 1..Len(header) :
          /\ row[i] = <<>> /\ NullableNumericKey(header[i])
          /\ ValueAt(entry, Path(header[i])) = Null
          /\ row[j] = <<>> /\ ~NullableNumericKey(header[j])
          /\ ValueAt(entry, Path(header[j])) = Str(<<>>)

\* The key paths the header names, with their prefixes
HeaderPaths ==
    UNION {{SubSeq(Path(header[i]), 1, n) : n \in 1..Len(Path(header[i]))} :
              i \in 1..Len(header)}

IsObjectAt(m, path) == ValueAt(m, path).t = "object"

\* C6: once a key path of the record holds a nested object, no column
\* applied without an error leaves anything but an object there.
C6_ObjectsNeverOverwritten ==
    [][rowErr' = Nil =>
          \A q \in HeaderPaths : IsObjectAt(entry, q) => IsObjectAt(entry', q)]_vars

\* The payload the converter has been given, up to the end of its input
ConvertedPayload == pc = "converted" /\ Len(payload.records) >= 1 /\ ~payload.bad

DataRows == Len(payload.records) - 1

\* C3: a header row and no data row give an empty JSON array.
C3_HeaderOnlyIsEmptyArray ==
    (ConvertedPayload /\ DataRows = 0) =>
        converted.err = Nil /\ converted.out = [t |-> "array", items |-> <<>>]

\* A header is well formed when no segment of a key is empty and no key
\* path is a proper prefix of another
WellFormedHeader(h) ==
    /\ \A i \in 1..Len(h) : \A n \in 1..Len(Path(h[i])) : Path(h[i])[n] # <<>>
    /\ \A i, j \in 1..Len(h) : ~ProperPrefix(Path(h[i]), Path(h[j]))

RowsMatch ==
    \A n \in 2..Len(payload.records) : Len(payload.records[n]) = Len(header)

\* C7 as stated, for the payloads with at least one data row (for those
\* with none see C3): a well-formed header and rows of its field count
\* convert to a JSON array of as many elements as there are data rows.
C7_MatchingRowsConvert ==
    (ConvertedPayload /\ DataRows >= 1 /\ WellFormedHeader(header) /\ RowsMatch) =>
        /\ converted.err = Nil
        /\ converted.out.t = "array"
        /\ Len(converted.out.items) = DataRows

\* every cell under a nullable numeric key is empty or the text of a finite number
NumericCellsFinite ==
    \A n \in 2..Len(payload.records) : \A i \in 1..Len(header) :
        (NullableNumericKey(header[i]) /\ payload.records[n][i] # <<>>) =>
            /\ parseFloat(payload.records[n][i]).err = Nil
            /\ ~parseFloat(payload.records[n][i]).value.nan

\* C7 amended: a well-formed header, rows of its field count and cells
\* under nullable numeric keys that are empty or finite numbers convert
\* without an error to as many records as there are data rows: a JSON array
\* of that many elements, or null when there is no data row.
C7_FiniteRowsConvert ==
    (ConvertedPayload /\ WellFormedHeader(header) /\ RowsMatch /\ NumericCellsFinite) =>
        /\ converted.err = Nil
        /\ DataRows = 0 => converted.out = JSONNull
        /\ DataRows >= 1 =>
              converted.out.t = "array" /\ Len(converted.out.items) = DataRows

C7_Witness ==
    /\ ConvertedPayload /\ DataRows = 2 /\ Len(header) = 2
    /\ WellFormedHeader(header) /\ RowsMatch /\ NumericCellsFinite
    /\ \E i \in 1..Len(header) : NullableNumericKey(header[i])
    /\ converted.err = Nil /\ Len(converted.out.items) = 2

\* The keys of a marshalled object, in the order written
MemberKeys(o) == [i \in 1..Len(o.members) |-> o.members[i].k]

RECURSIVE Dedup(_)
Dedup(s) ==
    IF s = <<>> THEN <<>>
    ELSE LET r == Dedup(SubSeq(s, 1, Len(s) - 1))
         IN  IF \E i \in 1..Len(r) : r[i] = s[Len(s)] THEN r ELSE Append(r, s[Len(s)])

\* The keys of the object at key path q in the order in which the columns
\* of the header first name them
EncounterOrder(h, q) ==
    LET under == SelectSeq(h, LAMBDA k : ProperPrefix(q, Path(k)))
    IN  Dedup([i \in 1..Len(under) |-> Path(under[i])[Len(q) + 1]])

RECURSIVE KeysInEncounterOrder(_, _, _)
KeysInEncounterOrder(v, h, q) ==
    IF v.t # "object" THEN TRUE
    ELSE /\ MemberKeys(v) = EncounterOrder(h, q)
         /\ \A i \in 1..Len(v.members) :
               KeysInEncounterOrder(v.members[i].v, h, Append(q, v.members[i].k))

ConvertedArray == pc = "converted" /\ converted.err = Nil /\ converted.out.t = "array"

\* C8: at every level of every record of the output the keys are
\* in the order in which the header first names them.
C8_KeysInHeaderOrder ==
    ConvertedArray =>
        \A n \in 1..Len(converted.out.items) :
            KeysInEncounterOrder(converted.out.items[n], header, <<>>)
====
